---- MODULE Spec2Model ----
(***************************************************************************)
(* Daepiro data collector: the disaster-alert function (getDisasterData.py) *)
(* and the news function (getNewsData.py).  Each invocation resolves the   *)
(* destination's high-water mark, fetches the upstream page, filters the   *)
(* records newer than the mark and POSTs them as one batch.                *)
(*                                                                         *)
(* A text is a sequence of one-character strings.  The two Hangul          *)
(* characters of the marker (U+C804 U+CCB4, "entire") are written "jeon"   *)
(* and "che"; both are word characters for Python's re module.             *)
(***************************************************************************)
EXTENDS Integers, Sequences, FiniteSets, TLC

VARIABLES
    pipeline,       \* the function a behaviour follows: "alert" | "news" | "address"
    feed,           \* the upstream listing, as the source supplies it (record ids)
    year,           \* the clock's year, counted from the first one
    destMark,       \* destination: the marker of the latest record it accepted
    accepted,       \* destination: the records it has accepted from the invocations
    duplicates,     \* destination: accepted records POSTed again after a mark was read
    inv,            \* the running invocations' local variables
    rcptn_rgn_nm,   \* post_disaster_messages alone: the message's region field
    locationStrs,   \* post_disaster_messages alone: the locationStr fields built
    addrPc          \* post_disaster_messages alone: "start" | "done"

envVars == <<feed, year>>
destVars == <<destMark, accepted, duplicates>>
addrVars == <<rcptn_rgn_nm, locationStrs, addrPc>>
vars == <<pipeline, feed, year, destMark, accepted, duplicates, inv,
          rcptn_rgn_nm, locationStrs, addrPc>>

----------------------------------------------------------------------------
(* Texts *)

MaxLen == 4

Letters == {"a", "b"}
MarkerText == <<"jeon", "che">>
Chars == Letters \cup {"jeon", "che", " ", "-", ","}

\* \w of the pattern: letters, digits, underscore, Hangul; not space, hyphen, comma
IsWordChar(c) == c \notin {" ", "-", ","}

IsWordAt(s, i) == i >= 1 /\ i <= Len(s) /\ IsWordChar(s[i])

\* \b before position i (between s[i-1] and s[i])
WordBoundary(s, i) == IsWordAt(s, i - 1) # IsWordAt(s, i)

Slice(s, i, j) == IF j < i THEN <<>> ELSE SubSeq(s, i, j)

\* s has text w at position p
HasAt(s, w, p) == p + Len(w) - 1 <= Len(s) /\ Slice(s, p, p + Len(w) - 1) = w

\* ( \1\b)+ : how many repetitions of " " w, each ending at a word boundary,
\* follow one another from position p (greedy)
RECURSIVE Repetitions(_, _, _)
Repetitions(s, w, p) ==
    IF HasAt(s, <<" ">> \o w, p) /\ WordBoundary(s, p + Len(w) + 1)
    THEN 1 + Repetitions(s, w, p + Len(w) + 1)
    ELSE 0

\* (\w+) from position i: the lengths the group can take
RECURSIVE WordRun(_, _)
WordRun(s, i) == IF IsWordAt(s, i) THEN 1 + WordRun(s, i + 1) ELSE 0

\* \b(\w+)( \1\b)+ tried at position i: the length of group 1 in the match the
\* backtracking search finds first (the longest that succeeds), 0 when none
GroupLen(s, i) ==
    LET ok == {n \in 1..WordRun(s, i) :
                  Repetitions(s, Slice(s, i, i + n - 1), i + n) >= 1}
    IN  IF WordBoundary(s, i) /\ ok # {}
        THEN CHOOSE n \in ok : \A m \in ok : m <= n
        ELSE 0

\* re.sub(pattern, r'\1', s) from position i: leftmost matches, left to right
RECURSIVE SubFrom(_, _)
SubFrom(s, i) ==
    IF i > Len(s) THEN <<>>
    ELSE LET n == GroupLen(s, i)
             w == Slice(s, i, i + n - 1)
         IN  IF n = 0
             THEN <<s[i]>> \o SubFrom(s, i + 1)
             ELSE w \o SubFrom(s, i + n + Repetitions(s, w, i + n) * (n + 1))

\* str.strip()
RECURSIVE LStrip(_)
LStrip(s) == IF s # <<>> /\ s[1] = " " THEN LStrip(Tail(s)) ELSE s

RECURSIVE RStrip(_)
RStrip(s) ==
    IF s # <<>> /\ s[Len(s)] = " " THEN RStrip(Slice(s, 1, Len(s) - 1)) ELSE s

Strip(s) == RStrip(LStrip(s))

preprocessing_address(address) == Strip(SubFrom(address, 1))

\* str.replace(marker, ""): non-overlapping occurrences, left to right, one pass
RECURSIVE ReplaceMarker(_)
ReplaceMarker(s) ==
    IF s = <<>> THEN <<>>
    ELSE IF HasAt(s, MarkerText, 1)
         THEN ReplaceMarker(Slice(s, Len(MarkerText) + 1, Len(s)))
         ELSE <<s[1]>> \o ReplaceMarker(Tail(s))

\* str.split(','): always at least one piece
RECURSIVE SplitComma(_)
SplitComma(s) ==
    IF \E i \in 1..Len(s) : s[i] = ","
    THEN LET i == CHOOSE k \in 1..Len(s) :
                      s[k] = "," /\ \A m \in 1..(k - 1) : s[m] # ","
         IN  <<Slice(s, 1, i - 1)>> \o SplitComma(Slice(s, i + 1, Len(s)))
    ELSE <<s>>

\* the locationStr of one location of a message
LocationStr(location) == preprocessing_address(ReplaceMarker(location))

\* the locationStr fields post_disaster_messages builds for one message
LocationStrsOf(rgn) ==
    LET locations == SplitComma(rgn)
    IN  [k \in 1..Len(locations) |-> LocationStr(locations[k])]

----------------------------------------------------------------------------
(* Bounds *)

MaxFeed == 3          \* records on the upstream page
MaxYears == 1         \* new years the clock passes

Slots == {1, 2}       \* invocations that may run at the same time

\* the records the sources hold: alert serial numbers, and news articles by
\* their "MM-DD HH:MM" text, numbered in time order
AlertSns == {1049, 1050, 1051, 1052}
CreatedAts == {1, 2, 3}

None == [some |-> FALSE]
Some(v) == [some |-> TRUE, v |-> v]

SeqRange(q) == {q[k] : k \in 1..Len(q)}

RECURSIVE SelectIds(_, _)
SelectIds(q, keep) ==
    IF q = <<>> THEN <<>>
    ELSE IF Head(q) \in keep THEN <<Head(q)>> \o SelectIds(Tail(q), keep)
         ELSE SelectIds(Tail(q), keep)

RECURSIVE Flatten(_)
Flatten(qq) == IF qq = <<>> THEN <<>> ELSE Head(qq) \o Flatten(Tail(qq))

Max(S) == CHOOSE x \in S : \A y \in S : y <= x

----------------------------------------------------------------------------
(* Upstream sources *)

\* RCPTN_RGN_NM of the alerts on the government API
Regions ==
    << <<"a", " ", "a">>,
       <<"b", " ", "jeon", "che">>,
       <<"a", ",", "b", " ", "b">>,
       <<"a", "-", "b">> >>

RegionOf(sn) == Regions[(sn % Len(Regions)) + 1]

\* one alert of the government API's body: SN and RCPTN_RGN_NM
DisasterMessage(sn) == [sn |-> sn, rcptn_rgn_nm |-> RegionOf(sn)]

\* one article of the news page: its title and its span.tt text ("MM-DD HH:MM")
NewsArticle(c) == [title |-> c, createdAt |-> c]

\* the upstream listings (record ids, no record twice) of at most n records
Listings(ids, n) ==
    {q \in UNION {[1..k -> ids] : k \in 0..n} :
        \A a, b \in 1..Len(q) : a # b => q[a] # q[b]}

\* what a request meets: success, a body that reports an application error, an
\* HTTP error status, a transport failure
FetchOutcomes == {"ok", "apperr", "httperr", "neterr"}
PostOutcomes == {"ok", "apperr", "httperr", "neterr"}
MarkOutcomes == {"ok", "apperr", "neterr"}

----------------------------------------------------------------------------
(* An invocation's local variables *)

IdleInv ==
    [pc |-> "idle", latest |-> None, src |-> "-", fetched |-> <<>>,
     current_year |-> 0, payload |-> <<>>, nposts |-> 0, post |-> "-",
     status |-> "-", logged |-> "-"]

Running(s) == s.pc \in {"resolve", "fetch", "publish"}

----------------------------------------------------------------------------
(* Destination API *)

\* the destination takes a batch: with outcome "ok" it accepts every entry, and
\* its marker becomes the greatest it has accepted
AcceptedAfter(recs, outcome) ==
    IF outcome = "ok" THEN accepted \cup recs ELSE accepted

\* the records of a batch the destination had accepted before, when the
\* invocation that sends them had read the mark
DuplicatesAfter(s, recs) ==
    IF s.latest.some THEN duplicates \cup (recs \cap accepted) ELSE duplicates

----------------------------------------------------------------------------
(* getDisasterData.py *)

num_of_rows == 200

\* get_latest_message_id: the messageId on code 1000, None otherwise
get_latest_message_id(mark, outcome) == IF outcome = "ok" THEN mark ELSE None

\* get_disaster_messages: page 1 of the body on resultCode "00", [] otherwise
get_disaster_messages(listing, outcome) ==
    IF outcome = "ok" /\ listing # <<>>
    THEN [k \in 1..(IF Len(listing) < num_of_rows THEN Len(listing) ELSE num_of_rows)
             |-> DisasterMessage(listing[k])]
    ELSE <<>>

\* A plausible bug: the comparison lets the mark itself through
IsNewMessageOrEqual(sn, latest_message_id) == sn >= latest_message_id

\* msg.sn > latest_message_id
IsNewMessage(sn, latest_message_id) == sn > latest_message_id

\* A guard the handler does not have: records the destination already holds
\* are dropped when the batch is built
NewDisasterMessagesGuarded(disaster_messages, latest_message_id) ==
    LET Test(msg) == IsNewMessage(msg.sn, latest_message_id) /\ msg.sn \notin accepted
    IN  SelectSeq(disaster_messages, Test)

new_disaster_messages(disaster_messages, latest_message_id) ==
    LET Test(msg) == IsNewMessage(msg.sn, latest_message_id)
    IN  SelectSeq(disaster_messages, Test)

\* sorted(..., reverse=True) is stable: a message goes after those not below it
RECURSIVE InsertDesc(_, _)
InsertDesc(msg, q) ==
    IF q = <<>> THEN <<msg>>
    ELSE IF Head(q).sn >= msg.sn THEN <<Head(q)>> \o InsertDesc(msg, Tail(q))
         ELSE <<msg>> \o q

RECURSIVE SortDescFrom(_, _)
SortDescFrom(q, acc) ==
    IF q = <<>> THEN acc ELSE SortDescFrom(Tail(q), InsertDesc(Head(q), acc))

\* A plausible bug: the filtered messages are posted in the order fetched
UnsortedMessages(msgs) == msgs

new_disaster_messages_sorted(msgs) == SortDescFrom(msgs, <<>>)

\* post_disaster_messages: one payload entry per location of each message
disasters_payload(disaster_messages) ==
    Flatten([m \in 1..Len(disaster_messages) |->
        LET message == disaster_messages[m]
            strs == LocationStrsOf(message.rcptn_rgn_nm)
        IN  [k \in 1..Len(strs) |->
                [messageId |-> message.sn, locationStr |-> strs[k]]]])

\* A plausible bug: a failed POST is sent a second time
PostDisasterMessagesRetry(s, msgs, outcome) ==
    [s EXCEPT !.payload = disasters_payload(msgs),
              !.nposts = s.nposts + (IF outcome = "ok" THEN 1 ELSE 2),
              !.post = outcome,
              !.logged = IF outcome = "ok" THEN "saved" ELSE "save_error"]

\* post_disaster_messages: one POST; every failure is printed, none raised
post_disaster_messages(s, msgs, outcome) ==
    [s EXCEPT !.payload = disasters_payload(msgs),
              !.nposts = s.nposts + 1,
              !.post = outcome,
              !.logged = CASE outcome = "ok" -> "saved"
                           [] outcome = "apperr" -> "api_error"
                           [] OTHER -> "save_error"]

\* the destination's marker after a batch of alerts
AlertMarkAfter(mark, msgs, outcome) ==
    IF outcome = "ok" /\ msgs # <<>>
    THEN Some(Max({mark.v} \cup {msgs[k].sn : k \in 1..Len(msgs)}))
    ELSE mark

----------------------------------------------------------------------------
(* getNewsData.py *)

\* convert_created_at_to_iso: the current year put before "MM-DD HH:MM"
convert_created_at_to_iso(createdAt_str, current_year) ==
    [year |-> current_year, md |-> createdAt_str]

\* parse_published_at: the ISO text as a point in time
parse_published_at(published_at_str) ==
    published_at_str.year * (Cardinality(CreatedAts) + 1) + published_at_str.md

\* get_latest_published_at: data.publishedAt, None on a RequestException
get_latest_published_at(mark, outcome) == IF outcome = "ok" THEN mark ELSE None

\* the article elements of the page fetched; an error page holds none
newsArticles(listing, outcome) ==
    IF outcome = "ok" THEN [k \in 1..Len(listing) |-> NewsArticle(listing[k])]
    ELSE <<>>

IsNewArticle(article, current_year, latest_published_at_dt) ==
    parse_published_at(convert_created_at_to_iso(article.createdAt, current_year))
        > latest_published_at_dt

\* A plausible bug: without a mark nothing is forwarded
FilteredNewsArticlesFailClosed(articles, latest_published_at, current_year) ==
    IF latest_published_at.some
    THEN LET Test(article) ==
                 IsNewArticle(article, current_year,
                              parse_published_at(latest_published_at.v))
         IN  SelectSeq(articles, Test)
    ELSE <<>>

filtered_news_articles(articles, latest_published_at, current_year) ==
    IF latest_published_at.some
    THEN LET Test(article) ==
                 IsNewArticle(article, current_year,
                              parse_published_at(latest_published_at.v))
         IN  SelectSeq(articles, Test)
    ELSE articles

news_data(articles, current_year) ==
    [k \in 1..Len(articles) |->
        [title |-> articles[k].title,
         publishedAt |->
             convert_created_at_to_iso(articles[k].createdAt, current_year)]]

\* the destination's marker after a batch of news
NewsMarkAfter(mark, news, outcome) ==
    IF outcome = "ok" /\ news # <<>>
    THEN LET isos == {news[k].publishedAt : k \in 1..Len(news)}
                         \cup (IF mark.some THEN {mark.v} ELSE {})
         IN  Some(CHOOSE x \in isos :
                    \A y \in isos : parse_published_at(y) <= parse_published_at(x))
    ELSE mark

----------------------------------------------------------------------------
(* The invocations *)

FeedIds == IF pipeline = "alert" THEN AlertSns ELSE CreatedAts

\* lambda_handler of either file starts: getSecret returns or raises.  The
\* invocations are alike, so a new one takes the lowest free place
Invoke(i) ==
    /\ pipeline \in {"alert", "news"}
    /\ inv[i].pc = "idle"
    /\ \A j \in Slots : j < i => inv[j].pc # "idle"
    /\ \E secret \in BOOLEAN :
          inv' = [inv EXCEPT ![i] =
                     [IdleInv EXCEPT !.pc = IF secret THEN "resolve" ELSE "raised"]]
    /\ UNCHANGED <<pipeline, envVars, destVars, addrVars>>

\* getDisasterData.lambda_handler, lines 143-146 and 162-163
AlertAfterResolve(s, latest_message_id) ==
    IF latest_message_id.some
    THEN [s EXCEPT !.latest = latest_message_id, !.pc = "fetch"]
    ELSE [s EXCEPT !.latest = None, !.pc = "done", !.status = "None",
                   !.logged = "no_mark"]

AlertResolve(i) ==
    /\ pipeline = "alert"
    /\ inv[i].pc = "resolve"
    /\ \E outcome \in MarkOutcomes :
          inv' = [inv EXCEPT ![i] =
                     AlertAfterResolve(inv[i], get_latest_message_id(destMark, outcome))]
    /\ UNCHANGED <<pipeline, envVars, destVars, addrVars>>

\* getDisasterData.lambda_handler, line 149
AlertFetch(i) ==
    /\ pipeline = "alert"
    /\ inv[i].pc = "fetch"
    /\ \E outcome \in FetchOutcomes :
          inv' = [inv EXCEPT ![i] =
                     [inv[i] EXCEPT !.src = outcome,
                                    !.fetched = get_disaster_messages(feed, outcome),
                                    !.pc = "publish"]]
    /\ UNCHANGED <<pipeline, envVars, destVars, addrVars>>

\* A plausible bug: the POST is made whatever the batch holds
AlwaysPost(batch) == TRUE

\* "if new_disaster_messages_sorted:" and "if not news_data['news']:"
HasEntries(batch) == batch # <<>>

\* getDisasterData.lambda_handler, lines 152-161
AlertPublish(i) ==
    /\ pipeline = "alert"
    /\ inv[i].pc = "publish"
    /\ LET s == inv[i]
           msgs == new_disaster_messages_sorted(
                       new_disaster_messages(s.fetched, s.latest.v))
       IN  IF HasEntries(msgs)
           THEN \E outcome \in PostOutcomes :
                  /\ inv' = [inv EXCEPT ![i] =
                                [post_disaster_messages(s, msgs, outcome)
                                    EXCEPT !.pc = "done", !.status = "None"]]
                  /\ destMark' = AlertMarkAfter(destMark, msgs, outcome)
                  /\ LET recs == {msgs[k].sn : k \in 1..Len(msgs)}
                     IN  /\ accepted' = AcceptedAfter(recs, outcome)
                         /\ duplicates' = DuplicatesAfter(s, recs)
           ELSE /\ inv' = [inv EXCEPT ![i] =
                              [s EXCEPT !.pc = "done", !.status = "None",
                                        !.logged = "no_new"]]
                /\ UNCHANGED destVars
    /\ UNCHANGED <<pipeline, envVars, addrVars>>

\* getNewsData.lambda_handler, lines 70-77
NewsResolve(i) ==
    /\ pipeline = "news"
    /\ inv[i].pc = "resolve"
    /\ \E outcome \in MarkOutcomes \ {"apperr"} :
          LET latest_published_at == get_latest_published_at(destMark, outcome)
          IN  inv' = [inv EXCEPT ![i] =
                         [inv[i] EXCEPT !.latest = latest_published_at,
                                        !.pc = "fetch",
                                        !.logged = IF latest_published_at.some
                                                   THEN "-" ELSE "no_filtering"]]
    /\ UNCHANGED <<pipeline, envVars, destVars, addrVars>>

\* getNewsData.lambda_handler, lines 80-102: requests.get stands in no try
NewsAfterFetch(s, listing, outcome) ==
    IF outcome = "neterr"
    THEN [s EXCEPT !.src = outcome, !.pc = "raised"]
    ELSE [s EXCEPT !.src = outcome, !.fetched = newsArticles(listing, outcome),
                   !.pc = "publish"]

NewsFetch(i) ==
    /\ pipeline = "news"
    /\ inv[i].pc = "fetch"
    /\ \E outcome \in FetchOutcomes \ {"apperr"} :
          inv' = [inv EXCEPT ![i] = NewsAfterFetch(inv[i], feed, outcome)]
    /\ UNCHANGED <<pipeline, envVars, destVars, addrVars>>

\* getNewsData.lambda_handler, lines 137-150: one POST, then status 200
NewsPost(s, news, outcome) ==
    [s EXCEPT !.payload = news, !.nposts = s.nposts + 1, !.post = outcome,
              !.status = "200", !.pc = "done",
              !.logged = IF outcome \in {"ok", "apperr"} THEN "sent" ELSE "send_failed"]

\* getNewsData.lambda_handler, lines 108-150
NewsPublish(i) ==
    /\ pipeline = "news"
    /\ inv[i].pc = "publish"
    /\ LET s == [inv[i] EXCEPT !.current_year = year]
           news == news_data(
                       filtered_news_articles(s.fetched, s.latest, s.current_year),
                       s.current_year)
       IN  IF HasEntries(news)
           THEN \E outcome \in PostOutcomes :
                  /\ inv' = [inv EXCEPT ![i] = NewsPost(s, news, outcome)]
                  /\ destMark' = NewsMarkAfter(destMark, news, outcome)
                  /\ LET recs == {news[k].title : k \in 1..Len(news)}
                     IN  /\ accepted' = AcceptedAfter(recs, outcome)
                         /\ duplicates' = DuplicatesAfter(s, recs)
           ELSE /\ inv' = [inv EXCEPT ![i] =
                              [s EXCEPT !.pc = "done", !.status = "204",
                                        !.logged = "no_new"]]
                /\ UNCHANGED destVars
    /\ UNCHANGED <<pipeline, envVars, addrVars>>

\* the invocation is over: its local variables are gone
Return(i) ==
    /\ inv[i].pc \in {"done", "raised"}
    /\ inv' = [inv EXCEPT ![i] = IdleInv]
    /\ UNCHANGED <<pipeline, envVars, destVars, addrVars>>

\* the source lists one more record, ahead of the others
Upstream ==
    /\ pipeline \in {"alert", "news"}
    /\ Len(feed) < MaxFeed
    /\ \E r \in FeedIds \ SeqRange(feed) : feed' = <<r>> \o feed
    /\ UNCHANGED <<pipeline, year, destVars, inv, addrVars>>

\* a new year begins (only the news function reads the year)
NewYear ==
    /\ pipeline = "news"
    /\ year < MaxYears
    /\ year' = year + 1
    /\ UNCHANGED <<pipeline, feed, destVars, inv, addrVars>>

Init ==
    /\ pipeline \in {"alert", "news"}
    /\ feed \in Listings(FeedIds, MaxFeed)
    /\ year = 0
    /\ destMark \in (IF pipeline = "alert"
                      THEN {Some(1050)}
                      ELSE {None, Some(convert_created_at_to_iso(1, 0))})
    /\ accepted = {}
    /\ duplicates = {}
    /\ inv = [i \in Slots |-> IdleInv]
    /\ rcptn_rgn_nm = <<>>
    /\ locationStrs = <<>>
    /\ addrPc = "start"

Next ==
    \/ \E i \in Slots : Invoke(i)
    \/ \E i \in Slots : AlertResolve(i)
    \/ \E i \in Slots : AlertFetch(i)
    \/ \E i \in Slots : AlertPublish(i)
    \/ \E i \in Slots : NewsResolve(i)
    \/ \E i \in Slots : NewsFetch(i)
    \/ \E i \in Slots : NewsPublish(i)
    \/ \E i \in Slots : Return(i)
    \/ Upstream
    \/ NewYear

Spec == Init /\ [][Next]_vars

----------------------------------------------------------------------------
(* post_disaster_messages on one message, for every region text *)

Texts(n) == UNION {[1..k -> Chars] : k \in 0..n}

GangnamText ==
    <<"G", "a", "n", "g", "n", "a", "m", "-", "g", "u", " ",
      "G", "a", "n", "g", "n", "a", "m", "-", "g", "u", " ", "jeon", "che">>
SeoulText ==
    <<"S", "e", "o", "u", "l", " ", "S", "e", "o", "u", "l", " ", "G", "u">>

PostLocations ==
    /\ pipeline = "address"
    /\ addrPc = "start"
    /\ locationStrs' = LocationStrsOf(rcptn_rgn_nm)
    /\ addrPc' = "done"
    /\ UNCHANGED <<pipeline, envVars, destVars, inv, rcptn_rgn_nm>>

AddressInit ==
    /\ pipeline = "address"
    /\ feed = <<>>
    /\ year = 0
    /\ destMark = None
    /\ accepted = {}
    /\ duplicates = {}
    /\ inv = [i \in Slots |-> IdleInv]
    /\ rcptn_rgn_nm \in Texts(MaxLen) \cup {GangnamText, SeoulText}
    /\ locationStrs = <<>>
    /\ addrPc = "start"

AddressNext == PostLocations

AddressSpec == AddressInit /\ [][AddressNext]_vars

----------------------------------------------------------------------------
(* Invocations one after another: none starts while another is running *)

NoneRunning == \A j \in Slots : ~Running(inv[j])

SequentialNext ==
    \/ \E i \in Slots : NoneRunning /\ Invoke(i)
    \/ \E i \in Slots : AlertResolve(i)
    \/ \E i \in Slots : AlertFetch(i)
    \/ \E i \in Slots : AlertPublish(i)
    \/ \E i \in Slots : NewsResolve(i)
    \/ \E i \in Slots : NewsFetch(i)
    \/ \E i \in Slots : NewsPublish(i)
    \/ \E i \in Slots : Return(i)
    \/ Upstream
    \/ NewYear

SequentialSpec == Init /\ [][SequentialNext]_vars

----------------------------------------------------------------------------
(* Properties *)

\* the invocation has been through its publish step
Published(s) == s.pc = "done" /\ s.src # "-"

\* the invocation has been through its mark resolution
Resolved(s) == s.pc \in {"fetch", "publish", "done"} \/ (s.pc = "raised" /\ s.src # "-")

FetchedIds(s) ==
    [k \in 1..Len(s.fetched) |->
        IF pipeline = "alert" THEN s.fetched[k].sn ELSE s.fetched[k].title]

PayloadIds(s) ==
    [k \in 1..Len(s.payload) |->
        IF pipeline = "alert" THEN s.payload[k].messageId ELSE s.payload[k].title]

\* the ordering key of record r as the invocation saw it: sn for an alert, the
\* parsed publish timestamp for an article
KeyOf(s, r) ==
    IF pipeline = "alert" THEN r
    ELSE parse_published_at(convert_created_at_to_iso(r, s.current_year))

MarkOf(s) ==
    IF pipeline = "alert" THEN s.latest.v ELSE parse_published_at(s.latest.v)

\* C1: with the mark present, a fetched record is in the batch exactly when its
\* ordering key is strictly greater than the mark (a key equal to it is left out)
C1_StrictlyNewer ==
    \A i \in Slots :
        LET s == inv[i]
        IN  (Published(s) /\ s.latest.some) =>
                \A r \in SeqRange(FetchedIds(s)) :
                    (r \in SeqRange(PayloadIds(s))) <=> (KeyOf(s, r) > MarkOf(s))

C1_Witness ==
    \E i \in Slots :
        LET s == inv[i]
        IN  /\ Published(s) /\ s.latest.some /\ s.nposts = 1
            /\ \E r \in SeqRange(FetchedIds(s)) :
                  KeyOf(s, r) = MarkOf(s) /\ r \notin SeqRange(PayloadIds(s))
            /\ \E r \in SeqRange(FetchedIds(s)) :
                  KeyOf(s, r) > MarkOf(s) /\ r \in SeqRange(PayloadIds(s))

\* record r passes the invocation's filter (without a mark the news handler
\* filters nothing)
Eligible(s, r) == s.latest.some => KeyOf(s, r) > MarkOf(s)

C3_EmptyBatchNoPost ==
    \A i \in Slots :
        LET s == inv[i]
        IN  /\ (Published(s) /\ \A r \in SeqRange(FetchedIds(s)) : ~Eligible(s, r)) =>
                  /\ s.nposts = 0 /\ s.post = "-" /\ s.payload = <<>>
                  /\ s.logged = "no_new"
                  /\ s.status = (IF pipeline = "news" THEN "204" ELSE "None")
            /\ (s.status = "200" => s.nposts > 0 /\ s.payload # <<>>)

C3_Witness ==
    \E i \in Slots :
        LET s == inv[i]
        IN  /\ Published(s) /\ s.src = "ok" /\ Len(s.fetched) >= 2
            /\ \A r \in SeqRange(FetchedIds(s)) : ~Eligible(s, r)
            /\ s.nposts = 0 /\ s.logged = "no_new"

\* C4: the alert payload runs in descending messageId order whatever the order
\* fetched (mark 1050, fetched 1049 1051 1052: payload 1052 1051); the news
\* payload keeps the source's order
C4_PayloadOrder ==
    \A i \in Slots :
        LET s == inv[i]
            ids == PayloadIds(s)
        IN  Published(s) =>
                IF pipeline = "alert"
                THEN /\ \A k \in 1..(Len(ids) - 1) : ids[k] >= ids[k + 1]
                     /\ (s.latest = Some(1050) /\ FetchedIds(s) = <<1049, 1051, 1052>>)
                            => ids = <<1052, 1051>>
                ELSE ids = SelectIds(FetchedIds(s), SeqRange(ids))

C4_Witness ==
    \E i \in Slots :
        LET s == inv[i]
        IN  /\ pipeline = "alert" /\ Published(s) /\ s.nposts = 1
            /\ s.latest = Some(1050)
            /\ FetchedIds(s) = <<1049, 1051, 1052>>
            /\ PayloadIds(s) = <<1052, 1051>>

\* C5 as claimed: in both pipelines a failed source fetch raises nothing and
\* yields no records
C5_FetchNeverRaises ==
    \A i \in Slots :
        inv[i].src \notin {"-", "ok"} => inv[i].pc # "raised" /\ inv[i].fetched = <<>>

\* C6: a non-empty batch is POSTed exactly once, and whatever the POST meets
\* the invocation completes, with no exception and no second POST
C6_OnePostNoRaise ==
    \A i \in Slots :
        LET s == inv[i]
        IN  /\ s.nposts <= 1
            /\ s.post # "-" => s.pc = "done" /\ s.nposts = 1
            /\ (Published(s) /\ \E r \in SeqRange(FetchedIds(s)) : Eligible(s, r)) =>
                  s.nposts = 1 /\ s.post \in PostOutcomes

C6_Witness ==
    \E i, j \in Slots :
        /\ inv[i].pc = "done" /\ inv[i].nposts = 1 /\ inv[i].post = "neterr"
        /\ inv[j].pc = "done" /\ inv[j].nposts = 1 /\ inv[j].post = "apperr"

\* C9 as claimed: with invocations one after another and the mark read, no
\* record the destination has accepted is sent to it again
C9_NoResubmission == duplicates = {}

\* C10: nothing guards overlapping invocations: two that read the same mark
\* and fetched the same newer record both send it
C10_BothSubmit ==
    \A i, j \in Slots :
        LET s == inv[i]
            t == inv[j]
        IN  (i # j /\ Published(s) /\ Published(t)
                  /\ s.latest.some /\ t.latest = s.latest) =>
                \A r \in SeqRange(FetchedIds(s)) \cap SeqRange(FetchedIds(t)) :
                    (KeyOf(s, r) > MarkOf(s) /\ KeyOf(t, r) > MarkOf(t)) =>
                        /\ r \in SeqRange(PayloadIds(s))
                        /\ r \in SeqRange(PayloadIds(t))

\* the double publish: both read the same mark, both POSTs were accepted, and
\* the same record was in both
C10_Witness ==
    \E i, j \in Slots :
        /\ i # j /\ Published(inv[i]) /\ Published(inv[j])
        /\ inv[i].latest.some /\ inv[j].latest = inv[i].latest
        /\ inv[i].post = "ok" /\ inv[j].post = "ok"
        /\ \E r \in SeqRange(PayloadIds(inv[i])) \cap SeqRange(PayloadIds(inv[j])) :
              r \in duplicates

----------------------------------------------------------------------------
(* Address normalization as the specification words it *)

IsSpaceAt(s, i) == i >= 1 /\ i <= Len(s) /\ s[i] = " "

\* the whitespace-delimited token that starts at position i
RECURSIVE TokenLen(_, _)
TokenLen(s, i) ==
    IF i <= Len(s) /\ s[i] # " " THEN 1 + TokenLen(s, i + 1) ELSE 0

RECURSIVE SkipSpaces(_, _)
SkipSpaces(s, i) == IF IsSpaceAt(s, i) THEN SkipSpaces(s, i + 1) ELSE i

\* where the run of repetitions of token t ends, from position p after one t
RECURSIVE RunEnd(_, _, _)
RunEnd(s, t, p) ==
    LET q == SkipSpaces(s, p)
    IN  IF q > p /\ TokenLen(s, q) = Len(t) /\ HasAt(s, t, q)
        THEN RunEnd(s, t, q + Len(t))
        ELSE p

\* every run of repeated adjacent tokens collapsed into one occurrence
RECURSIVE ClaimedCollapse(_, _)
ClaimedCollapse(s, i) ==
    IF i > Len(s) THEN <<>>
    ELSE IF s[i] = " " THEN <<" ">> \o ClaimedCollapse(s, i + 1)
    ELSE LET t == Slice(s, i, i + TokenLen(s, i) - 1)
         IN  t \o ClaimedCollapse(s, RunEnd(s, t, i + Len(t)))

\* the marker token removed
RECURSIVE ClaimedDropMarker(_, _)
ClaimedDropMarker(s, i) ==
    IF i > Len(s) THEN <<>>
    ELSE IF s[i] = " " THEN <<" ">> \o ClaimedDropMarker(s, i + 1)
    ELSE LET t == Slice(s, i, i + TokenLen(s, i) - 1)
         IN  (IF t = MarkerText THEN <<>> ELSE t)
                 \o ClaimedDropMarker(s, i + Len(t))

ClaimedLocationStr(location) ==
    Strip(ClaimedDropMarker(ClaimedCollapse(location, 1), 1))

\* C7 as claimed: each locationStr is the location with its runs of repeated
\* tokens collapsed, the marker token removed and the ends trimmed
C7_LocationStrAsClaimed ==
    addrPc = "done" =>
        LET locations == SplitComma(rcptn_rgn_nm)
        IN  locationStrs = [k \in 1..Len(locations) |-> ClaimedLocationStr(locations[k])]

\* C8 as claimed: normalizing a locationStr again leaves it as it is
C8_Idempotent ==
    addrPc = "done" =>
        \A k \in 1..Len(locationStrs) : LocationStr(locationStrs[k]) = locationStrs[k]

====
